---- MODULE Spec2Model ----
(***************************************************************************)
(* Control core of the ATmega soldering station (software/src/main.cpp).   *)
(*                                                                         *)
(* Temperatures held in C doubles are modelled in thousandths of a degree  *)
(* (the code's constants 0.836, 8.91, 0.5 are exact in that unit); the     *)
(* integer variables keep their AVR widths (int is 16 bit).  The heater    *)
(* pin carries the value handed to analogWrite; with the N-channel MOSFET  *)
(* build 255 means off, and the duty is 255 minus the pin value.           *)
(***************************************************************************)
EXTENDS Integers, Sequences, FiniteSets, TLC

\* ------------------------------------------------------------- constants
ROTARY_TYPE == 1
TEMP_MIN == 150
TEMP_MAX == 400
TEMP_DEFAULT == 320
TEMP_SLEEP == 150
TEMP_BOOST == 50
TEMP_STEP == 10
TIMEOFBOOST == 40
HEATER_OFF == 255
VinMin == 11000
FaultTemp == 500
LongPress == 500
TEMP200 == 216
TEMP280 == 308
TEMP360 == 390
TEMPCHP == 30
TIPMAX == 8
TIPNAMELENGTH == 6
TIME2SLEEP == 5
TIME2OFF == 15
MAINSCREEN == 1
EEPROM_IDENT == 59244

\* ---------------------------------------------------------------- bounds
\* millis() never passes MaxTime in the model
MaxTime == 300000
\* passes of loop() explored from start up
MaxTicks == 4
\* encoder events taken while the control loop runs
MaxTurns == 2

\* ------------------------------------------------------ integer helpers
U8(x) == x % 256

U16(x) == x % 65536

\* millis() - since in uint32_t arithmetic; the clock of the model stays far
\* below 2^32 and since is an earlier reading, so the difference never wraps
ElapsedSince(t, since) == t - since

\* a 16 bit pattern read as a signed int
S16(x) == IF (x % 65536) >= 32768 THEN (x % 65536) - 65536 ELSE x % 65536

LoByte(x) == (x % 65536) % 256

HiByte(x) == (x % 65536) \div 256

Abs(x) == IF x < 0 THEN -x ELSE x

\* Arduino's constrain macro
constrain(x, lo, hi) == IF x < lo THEN lo ELSE IF x > hi THEN hi ELSE x

\* double -> uint16_t: truncation; a negative operand is undefined behaviour,
\* builds either saturate at 0 or wrap the truncated value
DoubleToU16(milli) ==
  IF milli >= 0 THEN {(milli \div 1000) % 65536}
  ELSE {0, (65536 - ((-milli) \div 1000)) % 65536}

\* HEATER_PWM of the N_MOSFET build
HEATER_PWM(out) == 255 - out

\* duty applied to the heater for a pin value
DutyOf(pin) == 255 - pin

\* ------------------------------------------------------ analog readings
\* 32 conversions of one level summed in a uint16_t, then >> 5
denoiseAnalog(level) == ((32 * level) % 65536) \div 32

\* 16 conversions of one level, >> 4, 1125300L / result
getVCC(level) == 1125300 \div (((16 * level) % 65536) \div 16)

\* result * Vcc / 179.474, as uint16_t; 1000 / 179474 = 500 / 89737, and the
\* product is divided in two parts to stay inside 32 bit integers
getVIN(level, vcc) ==
  LET p == denoiseAnalog(level) * vcc
  IN ((p \div 89737) * 500 + ((p % 89737) * 500) \div 89737) % 65536

\* result * 0.9 - 113.836, as uint16_t
getColdJ(level) == DoubleToU16(denoiseAnalog(level) * 900 - 113836)

\* CurrentTemp = RawTemp * 0.836 + 8.91 + (CJTemp - 25), in thousandths
calculateTemp(raw, cj) == raw * 836 + 8910 + (cj - 25) * 1000

\* ---------------------------------------------------------------- state
VARIABLES
  DefaultTemp, SleepTemp, BoostTemp, timeOfBoost, PIDenable, ECReverse,
  a0, b0, ab0, count, countMin, countMax, countStep,
  epc, estep, eargs, ereg, rd, held, ideal, encOp, loFirst,
  SetTemp, ShowTemp, Setpoint, Output, RawTemp, CurrentTemp, CJTemp, Vcc, Vin,
  inSleepMode, inOffMode, inBoostMode, isWorky, beepIfWorky, TipIsPresent,
  boostmillis, buttonmillis, goneSeconds, SensorCounter, now,
  pc, c, c0, hold, reedValue, heater, SaveSetTemp, turns,
  time2sleep, time2off, MainScrType, beepEnable, BodyFlip, sleepmillis,
  NumberOfTips, CurrentTip, TipName, CalTemp,
  EEPROM, saved, lastOp, ops, CalTempNew, CalStep,
  notice

settings == <<DefaultTemp, SleepTemp, BoostTemp, timeOfBoost, PIDenable, ECReverse>>

\* the state shared with the pin change interrupt
encoder == <<a0, b0, ab0, count, countMin, countMax, countStep>>

\* the main context's position inside setRotary / getRotary
encmain == <<epc, estep, eargs, ereg, rd, held, ideal, encOp, loFirst>>

temps == <<SetTemp, ShowTemp, Setpoint, Output, RawTemp, CurrentTemp, CJTemp, Vcc, Vin>>

modes == <<inSleepMode, inOffMode, inBoostMode, isWorky, beepIfWorky, TipIsPresent>>

timing == <<boostmillis, buttonmillis, goneSeconds, SensorCounter, now>>

loopst == <<pc, c, c0, hold, reedValue, heater, SaveSetTemp, turns>>

\* settings and times the loop only reads
options == <<time2sleep, time2off, MainScrType, beepEnable, BodyFlip, sleepmillis>>

\* the tip profiles
tipstore == <<NumberOfTips, CurrentTip, TipName, CalTemp>>

\* the EEPROM, the snapshot last written to it, the menu item run last, the
\* number of menu items run and the values CalibrationScreen collected
nvm == <<EEPROM, saved, lastOp, ops, CalTempNew, CalStep>>

\* what no step of loop() outside the setup flow writes
offloop == <<options, tipstore, nvm>>

vars == <<settings, offloop, notice, encoder, encmain, temps, modes, timing, loopst>>

\* duty currently applied to the heater
Duty == DutyOf(heater)

\* the mode shown by MainScreen and used by Thermostat
Mode ==
  IF inOffMode THEN "Off"
  ELSE IF inSleepMode THEN "Sleep"
  ELSE IF inBoostMode THEN "Boost"
  ELSE "Normal"

\* ------------------------------------------- settings, tips and EEPROM
BoolByte(b) == IF b THEN 1 ELSE 0

TipIndices == 0 .. (TIPMAX - 1)

\* bytes of one tip in the EEPROM: the name, then four 16 bit values
TipRecordLength == TIPNAMELENGTH + 8

\* the cells getEEPROM and updateEEPROM can reach with TIPMAX tips
EepromCells == 0 .. (17 + TIPMAX * TipRecordLength - 1)

\* TIPNAME in its char[TIPNAMELENGTH]: "WMRT", zero filled
DefaultTipName == <<87, 77, 82, 84, 0, 0>>

NoTipName == <<0, 0, 0, 0, 0, 0>>

\* the calibration a tip starts with, and one with two points exchanged
DefaultCalTemp_exchanged == <<TEMP280, TEMP200, TEMP360, TEMPCHP>>

DefaultCalTemp == <<TEMP200, TEMP280, TEMP360, TEMPCHP>>

\* the initialisers of the settings and of the tip arrays
Defaults ==
  [DefaultTemp |-> TEMP_DEFAULT, SleepTemp |-> TEMP_SLEEP, BoostTemp |-> TEMP_BOOST,
   time2sleep |-> TIME2SLEEP, time2off |-> TIME2OFF, timeOfBoost |-> TIMEOFBOOST,
   MainScrType |-> MAINSCREEN, PIDenable |-> FALSE, beepEnable |-> TRUE,
   BodyFlip |-> FALSE, ECReverse |-> FALSE, CurrentTip |-> 0, NumberOfTips |-> 1,
   TipName |-> [i \in TipIndices |-> IF i = 0 THEN DefaultTipName ELSE NoTipName],
   CalTemp |-> [i \in TipIndices |-> IF i = 0 THEN DefaultCalTemp ELSE <<0, 0, 0, 0>>]]

\* the settings and the tip arrays as they are now
Memory ==
  [DefaultTemp |-> DefaultTemp, SleepTemp |-> SleepTemp, BoostTemp |-> BoostTemp,
   time2sleep |-> time2sleep, time2off |-> time2off, timeOfBoost |-> timeOfBoost,
   MainScrType |-> MainScrType, PIDenable |-> PIDenable, beepEnable |-> beepEnable,
   BodyFlip |-> BodyFlip, ECReverse |-> ECReverse, CurrentTip |-> CurrentTip,
   NumberOfTips |-> NumberOfTips, TipName |-> TipName, CalTemp |-> CalTemp]

\* the byte updateEEPROM stores at one of the cells 2..16
HeaderByte(m, a) ==
  CASE a = 2 -> HiByte(m.DefaultTemp)
    [] a = 3 -> LoByte(m.DefaultTemp)
    [] a = 4 -> HiByte(m.SleepTemp)
    [] a = 5 -> LoByte(m.SleepTemp)
    [] a = 6 -> m.BoostTemp
    [] a = 7 -> m.time2sleep
    [] a = 8 -> m.time2off
    [] a = 9 -> m.timeOfBoost
    [] a = 10 -> m.MainScrType
    [] a = 11 -> BoolByte(m.PIDenable)
    [] a = 12 -> BoolByte(m.beepEnable)
    [] a = 13 -> BoolByte(m.BodyFlip)
    [] a = 14 -> BoolByte(m.ECReverse)
    [] a = 15 -> m.CurrentTip
    [] OTHER -> m.NumberOfTips

\* byte j of the record of tip i with the low byte of a calibration value
\* in front of the high byte
TipByte_lowFirst(m, i, j) ==
  IF j < TIPNAMELENGTH THEN m.TipName[i][j + 1]
  ELSE LET k == (j - TIPNAMELENGTH) \div 2
       IN IF (j - TIPNAMELENGTH) % 2 = 0 THEN LoByte(m.CalTemp[i][k + 1])
          ELSE HiByte(m.CalTemp[i][k + 1])

\* byte j of the record of tip i
TipByte(m, i, j) ==
  IF j < TIPNAMELENGTH THEN m.TipName[i][j + 1]
  ELSE LET k == (j - TIPNAMELENGTH) \div 2
       IN IF (j - TIPNAMELENGTH) % 2 = 0 THEN HiByte(m.CalTemp[i][k + 1])
          ELSE LoByte(m.CalTemp[i][k + 1])

\* the EEPROM after the settings alone have been written
updateEEPROM_settingsOnly(e, m) ==
  [a \in DOMAIN e |-> IF a < 2 \/ a >= 17 THEN e[a] ELSE HeaderByte(m, a)]

\* the EEPROM after updateEEPROM() with the memory m: the identifier cells
\* and the records past NumberOfTips are not written
updateEEPROM(e, m) ==
  [a \in DOMAIN e |->
     IF a < 2 THEN e[a]
     ELSE IF a < 17 THEN HeaderByte(m, a)
     ELSE LET i == (a - 17) \div TipRecordLength
              j == (a - 17) % TipRecordLength
          IN IF i < m.NumberOfTips THEN TipByte(m, i, j) ELSE e[a]]

\* (EEPROM.read(a) << 8) | EEPROM.read(a + 1)
EepromWord(e, a) == e[a] * 256 + e[a + 1]

\* the memory after the reading branch of getEEPROM, m0 the memory before
ReadSettings(e, m0) ==
  [DefaultTemp |-> EepromWord(e, 2), SleepTemp |-> EepromWord(e, 4),
   BoostTemp |-> e[6], time2sleep |-> e[7], time2off |-> e[8],
   timeOfBoost |-> e[9], MainScrType |-> e[10], PIDenable |-> e[11] # 0,
   beepEnable |-> e[12] # 0, BodyFlip |-> e[13] # 0, ECReverse |-> e[14] # 0,
   CurrentTip |-> e[15], NumberOfTips |-> e[16],
   TipName |-> [i \in TipIndices |->
                  IF i < e[16]
                  THEN [j \in 1 .. TIPNAMELENGTH |-> e[17 + i * TipRecordLength + j - 1]]
                  ELSE m0.TipName[i]],
   CalTemp |-> [i \in TipIndices |->
                  IF i < e[16]
                  THEN [k \in 1 .. 4 |->
                          EepromWord(e, 17 + i * TipRecordLength + TIPNAMELENGTH
                                          + 2 * (k - 1))]
                  ELSE m0.CalTemp[i]]]

\* the identifier left out
WithIdent_none(e) == e

\* the identifier stored in front of the settings
WithIdent(e) ==
  [e EXCEPT ![0] = HiByte(EEPROM_IDENT), ![1] = LoByte(EEPROM_IDENT)]

\* getEEPROM(): memory and EEPROM afterwards
getEEPROM(e, m0) ==
  IF EepromWord(e, 0) = EEPROM_IDENT
  THEN [mem |-> ReadSettings(e, m0), rom |-> e]
  ELSE [mem |-> m0, rom |-> updateEEPROM(WithIdent(e), m0)]

\* an EEPROM never written
Erased == [a \in EepromCells |-> 255]

\* ------------------------------------------------------ rotary encoder
\* rvalue stored without the shift
ShiftUp_none(v) == v

\* rvalue << ROTARY_TYPE in a 16 bit int
ShiftUp(v) == S16(v * (2 ^ ROTARY_TYPE))

\* the counter handed back without the shift
getRotaryOf_noShift(cnt) == cnt

\* count >> ROTARY_TYPE (arithmetic shift)
getRotaryOf(cnt) == cnt \div (2 ^ ROTARY_TYPE)

getRotary == getRotaryOf(count)

\* countStep = ECReverse ? -rstep : rstep
StepOf(rev, rstep) == IF rev THEN -rstep ELSE rstep

\* one move of the counter inside the interrupt handler
ISRMove(cnt, d, lo, hi) == constrain(S16(cnt + d), lo, hi)

\* the counter after an interrupt that saw both phases change
ISRCount(cnt, a, b, ab, step, lo, hi) ==
  LET d  == IF a = b THEN step ELSE -step
      c1 == ISRMove(cnt, d, lo, hi)
  IN IF ROTARY_TYPE # 0 /\ ((a = b) # ab) THEN ISRMove(c1, d, lo, hi) ELSE c1

\* the counter after ISR(PCINT0_vect) read phase levels a, b
ISRResult(cnt, a, b) ==
  IF a # a0 /\ b # b0 THEN ISRCount(cnt, a, b, ab0, countStep, countMin, countMax)
  ELSE cnt

\* ISR(PCINT0_vect) on the shared state
PCINT0(a, b) ==
  /\ a0' = IF a # a0 THEN a ELSE a0
  /\ b0' = IF a # a0 /\ b # b0 THEN b ELSE b0
  /\ ab0' = IF a # a0 /\ b # b0 THEN (a = b) ELSE ab0
  /\ count' = ISRResult(count, a, b)
  /\ UNCHANGED <<countMin, countMax, countStep>>

\* setRotary run with no interrupt in between
setRotary(rmin, rmax, rstep, rvalue) ==
  /\ countMin' = ShiftUp(rmin)
  /\ countMax' = ShiftUp(rmax)
  /\ countStep' = StepOf(ECReverse, rstep)
  /\ count' = ShiftUp(rvalue)
  /\ UNCHANGED <<a0, b0, ab0>>

\* ------------------------------------------------------- control loop
\* the stand bucket taken one reading too wide
SLEEPCheckFlags_wide(r) ==
  IF r <= 32 THEN [tip |-> TRUE, sleep |-> TRUE, off |-> FALSE]
  ELSE IF r < 192 THEN [tip |-> TRUE, sleep |-> FALSE, off |-> FALSE]
  ELSE [tip |-> FALSE, sleep |-> TRUE, off |-> TRUE]

\* SLEEPCheck's three buckets of the denoised reed reading
SLEEPCheckFlags(r) ==
  IF r < 32 THEN [tip |-> TRUE, sleep |-> TRUE, off |-> FALSE]
  ELSE IF r < 192 THEN [tip |-> TRUE, sleep |-> FALSE, off |-> FALSE]
  ELSE [tip |-> FALSE, sleep |-> TRUE, off |-> TRUE]

\* the boost branch tested before the sleep branch
ModeSetpoint_boostFirst(off, sleep, boost, set, sleepT, boostT) ==
  IF off THEN 0
  ELSE IF boost THEN U16(set + boostT)
  ELSE IF sleep THEN sleepT
  ELSE set

\* Thermostat's choice of Setpoint (uint16_t arithmetic for the boost sum)
ModeSetpoint(off, sleep, boost, set, sleepT, boostT) ==
  IF off THEN 0
  ELSE IF sleep THEN sleepT
  ELSE IF boost THEN U16(set + boostT)
  ELSE set

\* Thermostat's direct control ladder; cur in thousandths, sp in degrees
\* the ladder applied to the distance between the two temperatures
DirectOutput_distance(cur, sp) ==
  IF Abs(sp * 1000 - cur) > 50000 THEN 255
  ELSE IF Abs(sp * 1000 - cur) > 25000 THEN 128
  ELSE IF Abs(sp * 1000 - cur) > 5000 THEN 32
  ELSE IF Abs(sp * 1000 - cur) > 500 THEN 8
  ELSE 0

DirectOutput(cur, sp) ==
  IF cur + 50000 < sp * 1000 THEN 255
  ELSE IF cur + 25000 < sp * 1000 THEN 128
  ELSE IF cur + 5000 < sp * 1000 THEN 32
  ELSE IF cur + 500 < sp * 1000 THEN 8
  ELSE 0

\* what ctrl.Compute() may leave in Output: the old value (sample time not
\* yet over) or a value inside the limits set by SetOutputLimits(0, 255)
PIDOutputs(old) == {old, 0, 100, 255}

\* the write done without the test of Vin
HeaterIfPowered_unguarded(vin, out, pin) == HEATER_PWM(out)

\* the pin after "if (Vin > 11000) analogWrite(CONTROL_PIN, HEATER_PWM)"
HeaterIfPowered(vin, out, pin) == IF vin > VinMin THEN HEATER_PWM(out) ELSE pin

\* the tip check without its analogWrite
FaultHeater_noWrite(show, pin) == pin

\* the pin after the first pass of "while (ShowTemp > 500)"
FaultHeater(show, pin) == IF show > FaultTemp THEN HEATER_OFF ELSE pin

\* the displayed temperature after the two stabilising assignments
ShowTempNext(show, sp, cur) ==
  LET s1 == IF show # sp \/ Abs(show * 1000 - cur) > 5000
            THEN DoubleToU16(cur) ELSE {show}
  IN {IF Abs(s - sp) <= 1 THEN sp ELSE s : s \in s1}

\* gap < 5 with gap = abs(SetTemp - CurrentTemp)
InWorkingRange(set, cur) == Abs(set * 1000 - cur) \div 1000 < 5

\* the comparison with 500 taken strictly
IsLongPress_strict(elapsed) == elapsed > LongPress

\* the button wait loop ended with at least 500 ms on the clock
IsLongPress(elapsed) == elapsed >= LongPress

\* goneSeconds = (millis() - boostmillis) / 1000, stored in a uint8_t
GoneSecondsOf(t, since) == U8(ElapsedSince(t, since) \div 1000)

Min2(x, y) == IF x < y THEN x ELSE y

\* ROTARYCheck up to the end of the button branch; cin is the level read from
\* the button pin, h the time the button stays down after the press was seen
\* SENSORCheck's test for the beep at working temperature
BeepsWhenWorky(inRange, worky, armed) == inRange /\ ~worky /\ armed

\* what has become of the beep a boost expiry asked for: "none" no expiry
\* yet, "armed" asked for, "raised" given when isWorky first turned true,
\* "missed" not given then, "extra" given once more after that
NoticeAfter(n, rise, beep) ==
  IF n = "armed" /\ rise THEN (IF beep THEN "raised" ELSE "missed")
  ELSE IF n \in {"raised", "missed"} /\ beep THEN "extra"
  ELSE n

ROTARYCheck_Button(cin, h) ==
  /\ pc = "rotary"
  /\ now + Min2(h, LongPress) <= MaxTime
  /\ SetTemp' = U16(getRotary)
  /\ c' = cin
  /\ IF cin = 0 /\ c0 # 0
     THEN /\ buttonmillis' = now
          /\ hold' = h
          /\ now' = now + Min2(h, LongPress)
          /\ IF IsLongPress(ElapsedSince(now', buttonmillis'))
             THEN \* SetupScreen() is entered
                  /\ heater' = HEATER_OFF
                  /\ SaveSetTemp' = SetTemp'
                  /\ pc' = "setup"
                  /\ UNCHANGED <<inBoostMode, boostmillis>>
             ELSE /\ inBoostMode' = ~inBoostMode
                  /\ boostmillis' = IF inBoostMode' THEN now' ELSE boostmillis
                  /\ pc' = "rotary2"
                  /\ UNCHANGED <<heater, SaveSetTemp>>
     ELSE /\ pc' = "rotary2"
          /\ UNCHANGED <<buttonmillis, hold, now, heater, SaveSetTemp,
                         inBoostMode, boostmillis>>
  /\ UNCHANGED <<settings, offloop, notice, encoder, encmain, ShowTemp, Setpoint, Output, RawTemp,
                 CurrentTemp, CJTemp, Vcc, Vin, inSleepMode, inOffMode, isWorky,
                 beepIfWorky, TipIsPresent, goneSeconds, SensorCounter,
                 c0, reedValue, turns>>

\* time spent inside the setup menus
SetupStay(d) ==
  /\ pc = "setup"
  /\ now + d <= MaxTime
  /\ now' = now + d
  /\ UNCHANGED <<settings, offloop, notice, encoder, encmain, temps, modes, boostmillis,
                 buttonmillis, goneSeconds, SensorCounter, loopst>>

\* the end of SetupScreen: the settings are stored, the setpoint and the
\* encoder range are restored
SetupExit ==
  /\ pc \in {"setup", "tips"}
  /\ EEPROM' = updateEEPROM(EEPROM, Memory)
  /\ saved' = Memory
  /\ lastOp' = "exit"
  /\ SetTemp' = SaveSetTemp
  /\ setRotary(TEMP_MIN, TEMP_MAX, TEMP_STEP, SetTemp')
  /\ pc' = "rotary2"
  /\ UNCHANGED <<settings, options, tipstore, ops, CalTempNew, CalStep, notice,
                 encmain, ShowTemp, Setpoint,
                 Output, RawTemp, CurrentTemp, CJTemp, Vcc, Vin, modes, timing,
                 c, c0, hold, reedValue, heater, SaveSetTemp, turns>>

\* the rest of ROTARYCheck: c0 = c and the boost timer
ROTARYCheck_Timer ==
  /\ pc = "rotary2"
  /\ c0' = c
  /\ IF inBoostMode /\ timeOfBoost # 0
     THEN /\ goneSeconds' = GoneSecondsOf(now, boostmillis)
          /\ IF goneSeconds' >= timeOfBoost
             THEN inBoostMode' = FALSE /\ beepIfWorky' = TRUE /\ notice' = "armed"
             ELSE UNCHANGED <<inBoostMode, beepIfWorky, notice>>
     ELSE UNCHANGED <<goneSeconds, inBoostMode, beepIfWorky, notice>>
  /\ pc' = "sleepcheck"
  /\ UNCHANGED <<settings, offloop, encoder, encmain, temps, inSleepMode, inOffMode,
                 isWorky, TipIsPresent, boostmillis, buttonmillis, SensorCounter,
                 now, c, hold, reedValue, heater, SaveSetTemp, turns>>

\* SENSORCheck, first part: heater off, then SLEEPCheck on reed level rl
SENSORCheck_Sleep(rl) ==
  /\ pc = "sleepcheck"
  /\ heater' = HEATER_OFF
  /\ reedValue' = denoiseAnalog(rl)
  /\ TipIsPresent' = SLEEPCheckFlags(reedValue').tip
  /\ inSleepMode' = SLEEPCheckFlags(reedValue').sleep
  /\ inOffMode' = SLEEPCheckFlags(reedValue').off
  /\ pc' = "sample"
  /\ UNCHANGED <<settings, offloop, notice, encoder, encmain, temps, inBoostMode, isWorky,
                 beepIfWorky, timing, c, c0, hold, SaveSetTemp, turns>>

\* SENSORCheck, second part: the tip reading tl, every 256th call the cold
\* junction cl and the supply vl, the heater switched on again, RawTemp
SENSORCheck_Sample(tl, cl, vl) ==
  /\ pc = "sample"
  /\ SensorCounter' = U8(SensorCounter - 1)
  /\ IF SensorCounter = 0
     THEN /\ CJTemp' \in getColdJ(cl)
          /\ Vin' = getVIN(vl, Vcc)
     ELSE UNCHANGED <<CJTemp, Vin>>
  /\ heater' = HeaterIfPowered(Vin', Output, heater)
  /\ RawTemp' = denoiseAnalog(tl)
  /\ pc' = "eval"
  /\ UNCHANGED <<settings, offloop, notice, encoder, encmain, SetTemp, ShowTemp, Setpoint, Output,
                 CurrentTemp, Vcc, modes, boostmillis, buttonmillis, goneSeconds,
                 now, c, c0, hold, reedValue, SaveSetTemp, turns>>

\* SENSORCheck, third part: calculateTemp, the displayed temperature and the
\* working-range flag
SENSORCheck_Eval ==
  /\ pc = "eval"
  /\ CurrentTemp' = calculateTemp(RawTemp, CJTemp)
  /\ ShowTemp' \in ShowTempNext(ShowTemp, Setpoint, CurrentTemp')
  /\ isWorky' = InWorkingRange(SetTemp, CurrentTemp')
  /\ beepIfWorky' = IF isWorky' THEN FALSE ELSE beepIfWorky
  /\ notice' = NoticeAfter(notice, ~isWorky /\ isWorky',
                           BeepsWhenWorky(isWorky', isWorky, beepIfWorky))
  /\ pc' = "tipcheck"
  /\ UNCHANGED <<settings, offloop, encoder, encmain, SetTemp, Setpoint, Output, RawTemp,
                 CJTemp, Vcc, Vin, inSleepMode, inOffMode, inBoostMode,
                 TipIsPresent, timing, c, c0, hold, reedValue, heater,
                 SaveSetTemp, turns>>

\* SENSORCheck, last part: the test of "while (ShowTemp > 500)" and, when it
\* succeeds, the first pass of the loop body
SENSORCheck_TipCheck ==
  /\ pc = "tipcheck"
  /\ heater' = FaultHeater(ShowTemp, heater)
  /\ pc' = IF ShowTemp > FaultTemp THEN "fault" ELSE "thermo"
  /\ UNCHANGED <<settings, offloop, notice, encoder, encmain, temps, modes, timing,
                 c, c0, hold, reedValue, SaveSetTemp, turns>>

\* one more pass of "while (ShowTemp > 500)"
FaultLoop ==
  /\ pc = "fault"
  /\ heater' = FaultHeater(ShowTemp, heater)
  /\ pc' = IF ShowTemp > FaultTemp THEN "fault" ELSE "thermo"
  /\ UNCHANGED <<settings, offloop, notice, encoder, encmain, temps, modes, timing,
                 c, c0, hold, reedValue, SaveSetTemp, turns>>

\* Thermostat; po is what the PID controller computes when it is enabled
Thermostat(po) ==
  /\ pc = "thermo"
  /\ Setpoint' = ModeSetpoint(inOffMode, inSleepMode, inBoostMode,
                              SetTemp, SleepTemp, BoostTemp)
  /\ Output' = IF PIDenable THEN po ELSE DirectOutput(CurrentTemp, Setpoint')
  /\ heater' = HeaterIfPowered(Vin, Output', heater)
  /\ pc' = "screen"
  /\ UNCHANGED <<settings, offloop, notice, encoder, encmain, SetTemp, ShowTemp, RawTemp,
                 CurrentTemp, CJTemp, Vcc, Vin, modes, timing,
                 c, c0, hold, reedValue, SaveSetTemp, turns>>

\* MainScreen draws only; d is the time the pass of loop() took
MainScreen(d) ==
  /\ pc = "screen"
  /\ now + d <= MaxTime
  /\ now' = now + d
  /\ pc' = "rotary"
  /\ UNCHANGED <<settings, offloop, notice, encoder, encmain, temps, modes, boostmillis,
                 buttonmillis, goneSeconds, SensorCounter,
                 c, c0, hold, reedValue, heater, SaveSetTemp, turns>>

\* the encoder turned while the control loop runs
LoopTurn(a, b) ==
  /\ pc = "rotary"
  /\ turns < MaxTurns
  /\ PCINT0(a, b)
  /\ turns' = turns + 1
  /\ UNCHANGED <<settings, offloop, notice, encmain, temps, modes, timing,
                 pc, c, c0, hold, reedValue, heater, SaveSetTemp>>

\* ------------------------------------------------ inputs of the model
SensorLevels == {0, 372, 1023}

ReedLevels == {0, 31, 32, 191, 192, 1023}

ColdJLevels == {140, 155}

VinLevels == {394, 395, 800}

VccLevels == {225}

PinLevels == {0, 1}

\* ------------------------------------------------------------- start up
\* the state at the end of setup() for an EEPROM found as e0 and the first
\* analog readings
\* analog readings; a tip count above TIPMAX makes getEEPROM write past the
\* tip arrays, and what follows that is not modelled (pc = "wild")
BootFrom(e0) ==
  /\ DefaultTemp = getEEPROM(e0, Defaults).mem.DefaultTemp
  /\ SleepTemp = getEEPROM(e0, Defaults).mem.SleepTemp
  /\ BoostTemp = getEEPROM(e0, Defaults).mem.BoostTemp
  /\ time2sleep = getEEPROM(e0, Defaults).mem.time2sleep
  /\ time2off = getEEPROM(e0, Defaults).mem.time2off
  /\ timeOfBoost = getEEPROM(e0, Defaults).mem.timeOfBoost
  /\ MainScrType = getEEPROM(e0, Defaults).mem.MainScrType
  /\ PIDenable = getEEPROM(e0, Defaults).mem.PIDenable
  /\ beepEnable = getEEPROM(e0, Defaults).mem.beepEnable
  /\ BodyFlip = getEEPROM(e0, Defaults).mem.BodyFlip
  /\ ECReverse = getEEPROM(e0, Defaults).mem.ECReverse
  /\ CurrentTip = getEEPROM(e0, Defaults).mem.CurrentTip
  /\ NumberOfTips = getEEPROM(e0, Defaults).mem.NumberOfTips
  /\ TipName = getEEPROM(e0, Defaults).mem.TipName
  /\ CalTemp = getEEPROM(e0, Defaults).mem.CalTemp
  /\ EEPROM = getEEPROM(e0, Defaults).rom
  /\ sleepmillis = 0
  /\ a0 \in PinLevels
  /\ b0 \in PinLevels
  /\ ab0 = (a0 = b0)
  /\ countMin = ShiftUp(TEMP_MIN)
  /\ countMax = ShiftUp(TEMP_MAX)
  /\ countStep = StepOf(ECReverse, TEMP_STEP)
  /\ count = ShiftUp(DefaultTemp)
  /\ epc = "idle"
  /\ estep = 0
  /\ eargs = [rmin |-> TEMP_MIN, rmax |-> TEMP_MAX, rstep |-> TEMP_STEP,
              rvalue |-> DefaultTemp]
  /\ ereg = 0
  /\ rd = DefaultTemp
  /\ held = {ShiftUp(DefaultTemp)}
  /\ ideal = {ShiftUp(DefaultTemp)}
  /\ encOp = "set"
  /\ loFirst \in BOOLEAN
  /\ SetTemp = DefaultTemp
  /\ ShowTemp = 0
  /\ Setpoint = 0
  /\ Output = 0
  /\ \E tl \in SensorLevels : RawTemp = denoiseAnalog(tl)
  /\ \E cl \in ColdJLevels : CJTemp \in getColdJ(cl)
  /\ CurrentTemp = calculateTemp(RawTemp, CJTemp)
  /\ \E l \in VccLevels : Vcc = getVCC(l)
  /\ \E vl \in VinLevels : Vin = getVIN(vl, Vcc)
  /\ inSleepMode = FALSE
  /\ inOffMode = FALSE
  /\ inBoostMode = FALSE
  /\ isWorky = TRUE
  /\ beepIfWorky = TRUE
  /\ TipIsPresent = TRUE
  /\ boostmillis = 0
  /\ buttonmillis = 0
  /\ goneSeconds = 0
  /\ SensorCounter = 255
  /\ now = 0
  /\ pc = IF NumberOfTips > TIPMAX THEN "wild" ELSE "rotary"
  /\ c = 0
  /\ c0 = 0
  /\ hold = 0
  /\ reedValue = 0
  /\ heater = HEATER_OFF
  /\ SaveSetTemp = 0
  /\ CalTempNew = <<0, 0, 0, 0>>
  /\ CalStep = 0
  /\ notice = "none"
  /\ turns = 0

\* EEPROMs written by this program with the default tip and the boost time,
\* control type and encoder direction chosen in the menus
BootImages ==
  {updateEEPROM(WithIdent(Erased),
                [Defaults EXCEPT !.timeOfBoost = t, !.PIDenable = p, !.ECReverse = r]) :
     t \in {0, 1, TIMEOFBOOST}, p \in BOOLEAN, r \in BOOLEAN}

\* what getEEPROM did with the EEPROM e0: read it or reset it to the defaults
LoadKind(e0) == IF EepromWord(e0, 0) = EEPROM_IDENT THEN "load" ELSE "reset"

\* start up from the EEPROM e0, no menu item run yet
StartFrom(e0) ==
  /\ BootFrom(e0)
  /\ saved = getEEPROM(e0, Defaults).mem
  /\ lastOp = LoadKind(e0)
  /\ ops = 0

Boot == \E e0 \in BootImages : StartFrom(e0)

\* ------------------------------------- the control loop, sensing side
\* taps on the button only, the clock is not looked at
Init ==
  /\ Boot
  /\ timeOfBoost = TIMEOFBOOST
  /\ ECReverse = FALSE
  /\ a0 = 1
  /\ b0 = 1
  /\ loFirst

\* passes of loop() begun since start up, read off the call counter of
\* SENSORCheck (exact for the first 256 passes)
PassesBegun == 255 - SensorCounter

Next ==
  \/ \E cin \in PinLevels : ROTARYCheck_Button(cin, 0)
  \/ ROTARYCheck_Timer
  \/ \E rl \in ReedLevels : SENSORCheck_Sleep(rl)
  \/ \E tl \in SensorLevels, cl \in ColdJLevels, vl \in VinLevels :
        SENSORCheck_Sample(tl, cl, vl)
  \/ SENSORCheck_Eval
  \/ SENSORCheck_TipCheck
  \/ FaultLoop
  \/ \E po \in PIDOutputs(Output) : Thermostat(po)
  \/ PassesBegun < MaxTicks /\ MainScreen(0)

Spec == Init /\ [][Next]_vars

\* C1 as written: at every point of execution at which the displayed
\* temperature exceeds 500 the duty applied to the heater is 0.
C1_SafetyOverride == ShowTemp > FaultTemp => Duty = 0

\* C1, amended: once the tip check of a sensing pass has found the displayed
\* temperature above 500 the duty applied to the heater is 0, in every mode,
\* for either control type and whatever Output holds, and it stays 0 for as
\* long as the displayed temperature exceeds 500; only between the update of
\* the displayed temperature and that check can the heater carry a duty.
C1_SafetyOverrideFromTipCheck ==
  ShowTemp > FaultTemp => (pc = "tipcheck" \/ (pc = "fault" /\ Duty = 0))

\* the tip check stopped the heater that Boost was driving at full duty
C1_Witness ==
  /\ pc = "fault"
  /\ ShowTemp > FaultTemp
  /\ RawTemp = 1023
  /\ Mode = "Boost"
  /\ Setpoint = SetTemp + BoostTemp
  /\ Output = 255
  /\ Vin > VinMin
  /\ Duty = 0

\* C7: after the presence check of a pass, a reading below 32 gives tip
\* present and mode Sleep, a reading in 32..191 gives tip present and mode
\* Normal or Boost, a reading of 192 or more gives tip absent and mode Off,
\* whatever the mode was before.
C7_PresenceBucketing ==
  pc = "sample" =>
    /\ reedValue < 32 => TipIsPresent /\ Mode = "Sleep"
    /\ (reedValue >= 32 /\ reedValue <= 191) =>
          TipIsPresent /\ Mode \in {"Normal", "Boost"}
    /\ reedValue >= 192 => ~TipIsPresent /\ Mode = "Off"

\* a reading at the top of the in-hand band brought the iron back from Off
C7_Witness ==
  /\ pc = "sample"
  /\ reedValue = 191
  /\ TipIsPresent
  /\ Mode = "Boost"
  /\ Setpoint = 0
  /\ PassesBegun > 0

\* C8: after every Thermostat step the setpoint is 0 in Off, the sleep
\* temperature in Sleep, user setpoint + boost increment in Boost and the
\* user setpoint in Normal, Off taking precedence over Sleep over Boost.
C8_SetpointPerMode ==
  pc = "screen" =>
    Setpoint = IF inOffMode THEN 0
               ELSE IF inSleepMode THEN SleepTemp
               ELSE IF inBoostMode THEN SetTemp + BoostTemp
               ELSE SetTemp

\* Thermostat ran with the boost flag set while the iron rested in the stand
C8_Witness ==
  /\ pc = "screen"
  /\ inSleepMode
  /\ ~inOffMode
  /\ inBoostMode
  /\ Setpoint = SleepTemp

\* ------------------------- the control loop through a whole cycle of
\* SensorCounter: the supply is read again on the 256th pass
SupplyReedLevels == {100, 500}

SupplySensorLevels == {0, 372}

SupplyColdJLevels == {155}

InitSupply ==
  /\ Init
  /\ ~PIDenable
  /\ CJTemp = 25

NextSupply ==
  \/ ROTARYCheck_Button(1, 0)
  \/ ROTARYCheck_Timer
  \/ \E rl \in SupplyReedLevels : SENSORCheck_Sleep(rl)
  \/ \E tl \in SupplySensorLevels, cl \in SupplyColdJLevels, vl \in VinLevels :
        SENSORCheck_Sample(tl, cl, vl)
  \/ SENSORCheck_Eval
  \/ SENSORCheck_TipCheck
  \/ Thermostat(0)
  \/ MainScreen(0)

SpecSupply == InitSupply /\ [][NextSupply]_vars

\* C3: whenever the supply voltage is not above 11000 mV the duty applied to
\* the heater is 0, whatever Output Thermostat computed in this pass or an
\* earlier one.
C3_UnderVoltage == Vin <= VinMin => Duty = 0

\* the supply read again on the 256th pass turned out low while Output,
\* computed before, asks for full duty
C3_Witness ==
  /\ pc = "eval"
  /\ SensorCounter = 255
  /\ Vin <= VinMin
  /\ Output = 255
  /\ Duty = 0

\* --------------------------- the control loop with its clock: button
\* presses of any length, the setup flow, the boost timer
HoldTimes == {0, 499, 500}

TickTimes == {1000, 39000}

SetupTimes == {256000}

TimedReedLevels == {100}

TimedSensorLevels == {372, 1023}

InitTimed ==
  /\ Boot
  /\ timeOfBoost \in {0, TIMEOFBOOST}
  /\ ~PIDenable
  /\ ~ECReverse
  /\ a0 = 1
  /\ b0 = 1
  /\ loFirst
  /\ RawTemp = 372
  /\ CJTemp = 25
  /\ Vin > VinMin

NextTimed ==
  \/ \E cin \in PinLevels, h \in HoldTimes : ROTARYCheck_Button(cin, h)
  \/ \E a \in PinLevels, b \in PinLevels : LoopTurn(a, b)
  \/ \E d \in SetupTimes : SetupStay(d)
  \/ SetupExit
  \/ ROTARYCheck_Timer
  \/ \E rl \in TimedReedLevels : SENSORCheck_Sleep(rl)
  \/ \E tl \in TimedSensorLevels : SENSORCheck_Sample(tl, 155, 800)
  \/ SENSORCheck_Eval
  \/ SENSORCheck_TipCheck
  \/ FaultLoop
  \/ Thermostat(0)
  \/ PassesBegun < MaxTicks /\ \E d \in TickTimes : MainScreen(d)

SpecTimed == InitTimed /\ [][NextTimed]_vars

\* the loop never idles while one of its steps can change the state
FairTimed == SpecTimed /\ WF_vars(NextTimed)

\* C2: a displayed temperature above 500 is never fatal: the control loop
\* goes on, and a later pass reaches Thermostat again.
C2_NeverFatal == (ShowTemp > FaultTemp) ~> (pc = "thermo")

\* C9: with a boost duration D > 0, at the boost timer check of every pass
\* Boost (active before the check) stays active iff fewer than D whole
\* seconds have passed since Boost was entered, however long ago the
\* previous check was.
C9_BoostExpiry ==
  [][(pc = "rotary2" /\ pc' = "sleepcheck" /\ inBoostMode /\ timeOfBoost # 0)
       => (inBoostMode' <=> ElapsedSince(now, boostmillis) < 1000 * timeOfBoost)]_vars

control ==
  <<settings, offloop, notice, temps, modes, timing, pc, c, c0, hold, reedValue, heater,
    SaveSetTemp>>

EncArgs(rmin, rmax, rstep, rvalue) ==
  [rmin |-> rmin, rmax |-> rmax, rstep |-> rstep, rvalue |-> rvalue]

\* ranges the firmware hands to setRotary (temperature, boost time,
\* sleep time), each with start values inside and outside the range
SeqCalls ==
  {EncArgs(TEMP_MIN, TEMP_MAX, TEMP_STEP, v) : v \in {100, 150, 320, 400, 450}}
    \cup {EncArgs(0, 180, 10, v) : v \in {0, 40, 255}}
    \cup {EncArgs(0, 30, 1, v) : v \in {5, 31}}

InitEnc ==
  /\ Boot
  /\ timeOfBoost = TIMEOFBOOST
  /\ ~PIDenable
  /\ RawTemp = 372
  /\ CJTemp = 25
  /\ Vin > VinMin + 1000

\* a call of setRotary that no interrupt cuts into
SeqSetRotary(call) ==
  /\ setRotary(call.rmin, call.rmax, call.rstep, call.rvalue)
  /\ eargs' = call
  /\ encOp' = "set"
  /\ UNCHANGED <<control, turns, epc, estep, ereg, rd, held, ideal, loFirst>>

\* a pin change interrupt between two calls
SeqPCINT0(a, b) ==
  /\ turns < MaxTurns
  /\ PCINT0(a, b)
  /\ turns' = turns + 1
  /\ encOp' = "moved"
  /\ UNCHANGED <<control, epc, estep, eargs, ereg, rd, held, ideal, loFirst>>

\* a call of getRotary that no interrupt cuts into
SeqGetRotary ==
  /\ rd' = getRotary
  /\ encOp' = IF encOp = "set" THEN "setget" ELSE "get"
  /\ UNCHANGED <<control, turns, encoder, epc, estep, eargs, ereg, held, ideal,
                 loFirst>>

NextEncSeq ==
  \/ \E call \in SeqCalls : SeqSetRotary(call)
  \/ \E a \in PinLevels, b \in PinLevels : SeqPCINT0(a, b)
  \/ SeqGetRotary

SpecEncSeq == InitEnc /\ [][NextEncSeq]_vars

\* C5 as written: setRotary(min, max, step, v) directly followed by
\* getRotary returns v clamped into [min, max].
C5_ReadBackClamped ==
  encOp = "setget" => rd = constrain(eargs.rvalue, eargs.rmin, eargs.rmax)

\* C5, amended: setRotary(min, max, step, v) directly followed by getRotary,
\* with no encoder event during or between the two calls, returns v itself,
\* also when v lies outside [min, max].
C5_ReadBackUnclamped == encOp = "setget" => rd = eargs.rvalue

\* a start value above the range was read back as it was passed
C5_Witness ==
  /\ encOp = "setget"
  /\ eargs.rvalue > eargs.rmax
  /\ rd = eargs.rvalue
  /\ count > countMax

\* ------------------ the encoder, the interrupt cutting into the calls
\* The AVR moves a 16 bit volatile one byte at a time and neither setRotary
\* nor getRotary masks the interrupt, so ISR(PCINT0_vect) can run between
\* any two byte accesses of the main context.
WithLo(x, byte) == S16(HiByte(x) * 256 + byte)

WithHi(x, byte) == S16(byte * 256 + LoByte(x))

\* calls made while the interrupt is live, start values inside the range
EncCalls ==
  {EncArgs(TEMP_MIN, TEMP_MAX, TEMP_STEP, v) : v \in {380, 400}}
    \cup {EncArgs(0, 180, 10, 40)}

\* the main context enters setRotary
SetRotaryCall(call) ==
  /\ epc = "idle"
  /\ epc' = "set"
  /\ estep' = 0
  /\ eargs' = call
  /\ UNCHANGED <<control, turns, encoder, ereg, rd, held, ideal, encOp, loFirst>>

\* the value assignment number k of setRotary stores
SetRotaryValue(k) ==
  IF k = 0 THEN ShiftUp(eargs.rmin)
  ELSE IF k = 1 THEN ShiftUp(eargs.rmax)
  ELSE IF k = 2 THEN StepOf(ECReverse, eargs.rstep)
  ELSE ShiftUp(eargs.rvalue)

\* one byte store of setRotary: bytes 0, 1 go to countMin, 2, 3 to countMax,
\* 4, 5 to countStep and 6, 7 to count
SetRotaryByte ==
  /\ epc = "set"
  /\ LET k == estep \div 2
         v == SetRotaryValue(k)
         lo == ((estep % 2 = 0) = loFirst)
         put(x) == IF lo THEN WithLo(x, LoByte(v)) ELSE WithHi(x, HiByte(v))
     IN /\ countMin' = IF k = 0 THEN put(countMin) ELSE countMin
        /\ countMax' = IF k = 1 THEN put(countMax) ELSE countMax
        /\ countStep' = IF k = 2 THEN put(countStep) ELSE countStep
        /\ count' = IF k = 3 THEN put(count) ELSE count
  /\ estep' = IF estep = 7 THEN 0 ELSE estep + 1
  /\ epc' = IF estep = 7 THEN "idle" ELSE "set"
  /\ encOp' = IF estep = 7 THEN "set" ELSE encOp
  /\ ideal' = IF estep = 6 THEN {ShiftUp(eargs.rvalue)} ELSE ideal
  /\ UNCHANGED <<control, turns, a0, b0, ab0, eargs, ereg, rd, held, loFirst>>

\* the main context enters getRotary
GetRotaryCall ==
  /\ epc = "idle"
  /\ epc' = "get"
  /\ estep' = 0
  /\ held' = {count}
  /\ UNCHANGED <<control, turns, encoder, eargs, ereg, rd, ideal, encOp, loFirst>>

\* one byte load of getRotary; the second one ends the call
GetRotaryByte ==
  /\ epc = "get"
  /\ IF estep = 0
     THEN /\ ereg' = IF loFirst THEN LoByte(count) ELSE HiByte(count)
          /\ estep' = 1
          /\ UNCHANGED <<epc, rd, encOp>>
     ELSE /\ rd' = getRotaryOf(IF loFirst THEN WithLo(WithHi(0, HiByte(count)), ereg)
                                         ELSE WithHi(WithLo(0, LoByte(count)), ereg))
          /\ estep' = 0
          /\ epc' = "idle"
          /\ encOp' = "get"
          /\ UNCHANGED ereg
  /\ UNCHANGED <<control, turns, encoder, eargs, held, ideal, loFirst>>

\* the interrupt, wherever the main context stands; held collects the values
\* the counter has during a getRotary, ideal the values a single store of
\* setRotary's start value could have led to
EncPCINT0(a, b) ==
  /\ turns < MaxTurns
  /\ PCINT0(a, b)
  /\ turns' = turns + 1
  /\ held' = IF epc = "get" THEN held \cup {count'} ELSE held
  /\ ideal' = IF epc = "set" /\ estep = 7
              THEN ideal \cup {ISRResult(v, a, b) : v \in ideal}
              ELSE ideal
  /\ encOp' = IF epc = "idle" /\ encOp = "set" THEN "moved" ELSE encOp
  /\ UNCHANGED <<control, epc, estep, eargs, ereg, rd, loFirst>>

NextEnc ==
  \/ \E call \in EncCalls : SetRotaryCall(call)
  \/ SetRotaryByte
  \/ GetRotaryCall
  \/ GetRotaryByte
  \/ \E a \in PinLevels, b \in PinLevels : EncPCINT0(a, b)

SpecEnc == InitEnc /\ [][NextEnc]_vars

\* C4: once setRotary(min, max, step, initial) with min <= initial <= max
\* has returned, every value getRotary returns lies in [min, max], whatever
\* encoder events arrive.
C4_EncoderBounds ==
  (epc = "idle" /\ encOp = "get" /\ eargs.rmin <= eargs.rvalue
     /\ eargs.rvalue <= eargs.rmax)
    => (eargs.rmin <= rd /\ rd <= eargs.rmax)

\* C6: getRotary returns a position the counter held at some instant between
\* call and return, and when setRotary returns the counter is the start
\* value, or the start value moved by the events that came after the store.
C6_AtomicCounter ==
  epc = "idle" =>
    /\ encOp = "get" => rd \in {getRotaryOf(v) : v \in held}
    /\ encOp = "set" => count \in ideal

\* --------------------------- the iron left alone, out of its stand
\* EEPROMs holding the sleep and power-off times the timer menu offers
IdleImages ==
  {updateEEPROM(WithIdent(Erased),
                [Defaults EXCEPT !.time2sleep = s, !.time2off = o]) :
     s \in {0, 1, TIME2SLEEP}, o \in {0, 5, TIME2OFF}}

IdleTicks == {30000, 60000}

IdleReedLevels == {100, 150}

InitIdle ==
  /\ \E e0 \in IdleImages : StartFrom(e0)
  /\ a0 = 1
  /\ b0 = 1
  /\ loFirst
  /\ RawTemp = 372
  /\ CJTemp = 25
  /\ Vin > VinMin + 1000

\* loop() with the button never pressed and the encoder never turned
NextIdle ==
  \/ ROTARYCheck_Button(1, 0)
  \/ ROTARYCheck_Timer
  \/ \E rl \in IdleReedLevels : SENSORCheck_Sleep(rl)
  \/ SENSORCheck_Sample(372, 155, 800)
  \/ SENSORCheck_Eval
  \/ SENSORCheck_TipCheck
  \/ Thermostat(0)
  \/ \E d \in IdleTicks : MainScreen(d)

SpecIdle == InitIdle /\ [][NextIdle]_vars

\* C11: with a sleep time of m > 0 minutes the mode is Sleep (or Off) once
\* the iron has been left unused for m minutes, and with a power-off time of
\* n > 0 minutes the mode is Off and the heater off once it has been left
\* unused for n minutes; seen at the end of each pass of the control loop.
C11_TimedSleepAndOff ==
  pc = "screen" =>
    /\ (time2sleep # 0 /\ ElapsedSince(now, sleepmillis) >= time2sleep * 60000)
          => Mode \in {"Sleep", "Off"}
    /\ (time2off # 0 /\ ElapsedSince(now, sleepmillis) >= time2off * 60000)
          => (Mode = "Off" /\ Duty = 0)

\* ------------------------------------------- the tip store and its menus
\* menu items run before the model stops offering more
MaxOps == 2

\* AddTipScreen's test for a free slot, and a test that always finds one
HasFreeSlot_always(n) == TRUE

HasFreeSlot(n) == n < TIPMAX

\* DeleteTipScreen's test for the last remaining tip, and one that never sees it
IsOnlyTip_never(n) == FALSE

IsOnlyTip(n) == n = 1

\* the entries from index from on moved one place down, n tips before;
\* the entry at n - 1 stays as it was
ShiftedDown_none(f, from, n) == f

ShiftedDown(f, from, n) ==
  [i \in DOMAIN f |-> IF from <= i /\ i < n - 1 THEN f[i + 1] ELSE f[i]]

\* CalibrationScreen's test of the three dialled values, after a test that
\* lets everything pass and one that lets gaps of exactly 10 pass
CalibrationValid_always(p) == TRUE

CalibrationValid_weak(p) == p[1] + 10 <= p[2] /\ p[2] + 10 <= p[3]

CalibrationValid(p) == p[1] + 10 < p[2] /\ p[2] + 10 < p[3]

\* the name InputNameScreen leaves: five dialled characters and the final 0
EnteredName(chars) == [j \in 1 .. TIPNAMELENGTH |-> IF j < TIPNAMELENGTH THEN chars[j] ELSE 0]

\* names dialled in the model: "AAAAA" (every digit left at its start) and "T18 _"
DialledNames == {<<65, 65, 65, 65, 65>>, <<84, 49, 56, 32, 95>>}

\* the name dialled for a new tip
NewTipNames == {<<78, 69, 87, 32, 32>>}

\* values dialled on the three calibration steps and the chip temperature read
CalTriples ==
  {<<200, 211, 222>>, <<200, 210, 360>>, <<100, 300, 500>>, <<300, 200, 400>>}

ChipTemps == {27}

\* the values of CalTriples that can follow the ones dialled on the steps
\* before step k
DialsAt(k) ==
  {p[k + 1] : p \in {q \in CalTriples : \A j \in 1 .. k : q[j] = CalTempNew[j]}}

\* settings dialled in the menus of SetupScreen
SettingsChoices ==
  {[DefaultTemp |-> 260, SleepTemp |-> 200, BoostTemp |-> 100, time2sleep |-> 30,
    time2off |-> 60, timeOfBoost |-> 180, MainScrType |-> 0, PIDenable |-> TRUE,
    beepEnable |-> FALSE, BodyFlip |-> TRUE, ECReverse |-> TRUE],
   [DefaultTemp |-> 400, SleepTemp |-> 20, BoostTemp |-> 10, time2sleep |-> 0,
    time2off |-> 0, timeOfBoost |-> 0, MainScrType |-> 1, PIDenable |-> FALSE,
    beepEnable |-> TRUE, BodyFlip |-> FALSE, ECReverse |-> FALSE]}

\* the items "Temp Settings" .. "EC Reverse" of SetupScreen, each value
\* dialled to the one in v; the encoder is left by the menu that follows
SettingsMenus(v) ==
  /\ pc = "setup"
  /\ ops < MaxOps
  /\ DefaultTemp' = v.DefaultTemp
  /\ SleepTemp' = v.SleepTemp
  /\ BoostTemp' = v.BoostTemp
  /\ time2sleep' = v.time2sleep
  /\ time2off' = v.time2off
  /\ timeOfBoost' = v.timeOfBoost
  /\ PIDenable' = v.PIDenable
  /\ MainScrType' = v.MainScrType
  /\ beepEnable' = v.beepEnable
  /\ BodyFlip' = v.BodyFlip
  /\ ECReverse' = v.ECReverse
  /\ setRotary(0, 9, 1, 7)
  /\ lastOp' = "settings"
  /\ ops' = ops + 1
  /\ UNCHANGED <<sleepmillis, tipstore, EEPROM, saved, CalTempNew, CalStep, notice,
                 encmain, temps, modes,
                 timing, loopst>>

\* "Tip Settings" is picked in SetupScreen and TipScreen shows its menu
TipScreen ==
  /\ pc = "setup"
  /\ pc' = "tips"
  /\ setRotary(0, 5, 1, 0)
  /\ UNCHANGED <<settings, offloop, notice, encmain, temps, modes, timing,
                 c, c0, hold, reedValue, heater, SaveSetTemp, turns>>

\* what every item of TipScreen leaves alone
TipItemFrame ==
  /\ pc = "tips"
  /\ ops < MaxOps
  /\ ops' = ops + 1
  /\ pc' = "tips"
  /\ UNCHANGED <<settings, options, EEPROM, saved, CalStep, encmain, timing,
                 c, c0, hold, reedValue, SaveSetTemp, turns>>

ChangeTipScreen(selected) ==
  /\ TipItemFrame
  /\ selected < NumberOfTips
  /\ setRotary(0, NumberOfTips - 1, 1, selected)
  /\ CurrentTip' = selected
  /\ lastOp' = "select"
  /\ UNCHANGED <<NumberOfTips, TipName, CalTemp, CalTempNew, notice, temps, modes,
                 heater>>

\* "Calibrate Tip" is picked: the first step's reference point becomes
\* SetTemp and the dial starts on it
CalibrationBegin ==
  /\ pc = "tips"
  /\ ops < MaxOps
  /\ pc' = "calib"
  /\ CalStep' = 0
  /\ SetTemp' = CalTemp[CurrentTip][1]
  /\ setRotary(100, 500, 1, SetTemp')
  /\ beepIfWorky' = TRUE
  /\ notice' = "none"
  /\ UNCHANGED <<settings, options, tipstore, EEPROM, saved, lastOp, ops, CalTempNew,
                 encmain, ShowTemp, Setpoint, Output, RawTemp, CurrentTemp, CJTemp,
                 Vcc, Vin, inSleepMode, inOffMode, inBoostMode, isWorky,
                 TipIsPresent, timing, c, c0, hold, reedValue, heater, SaveSetTemp,
                 turns>>

\* one turn of the waiting loop of a calibration step: SENSORCheck() and
\* Thermostat() as in loop(), taken as one step
CalibrationSense(rl, tl, cl, vl, po) ==
  /\ pc \in {"calib", "calwait"}
  /\ reedValue' = denoiseAnalog(rl)
  /\ TipIsPresent' = SLEEPCheckFlags(reedValue').tip
  /\ inSleepMode' = SLEEPCheckFlags(reedValue').sleep
  /\ inOffMode' = SLEEPCheckFlags(reedValue').off
  /\ SensorCounter' = U8(SensorCounter - 1)
  /\ IF SensorCounter = 0
     THEN /\ CJTemp' \in getColdJ(cl)
          /\ Vin' = getVIN(vl, Vcc)
     ELSE UNCHANGED <<CJTemp, Vin>>
  /\ RawTemp' = denoiseAnalog(tl)
  /\ CurrentTemp' = calculateTemp(RawTemp', CJTemp')
  /\ ShowTemp' \in ShowTempNext(ShowTemp, Setpoint, CurrentTemp')
  /\ isWorky' = InWorkingRange(SetTemp, CurrentTemp')
  /\ beepIfWorky' = IF isWorky' THEN FALSE ELSE beepIfWorky
  /\ IF ShowTemp' > FaultTemp
     THEN /\ heater' = HEATER_OFF
          /\ pc' = "fault"
          /\ UNCHANGED <<Setpoint, Output>>
     ELSE /\ Setpoint' = ModeSetpoint(inOffMode', inSleepMode', inBoostMode,
                                      SetTemp, SleepTemp, BoostTemp)
          /\ Output' = IF PIDenable THEN po ELSE DirectOutput(CurrentTemp', Setpoint')
          /\ heater' = HeaterIfPowered(Vin', Output',
                                       HeaterIfPowered(Vin', Output, HEATER_OFF))
          /\ pc' = "calwait"
  /\ UNCHANGED <<settings, offloop, notice, encoder, encmain, SetTemp, Vcc,
                 inBoostMode, boostmillis, buttonmillis, goneSeconds, now,
                 c, c0, hold, SaveSetTemp, turns>>

\* the button ends the first or the second step with the dial at v
CalibrationNext(v) ==
  /\ pc = "calwait"
  /\ CalStep < 2
  /\ CalTempNew' = [CalTempNew EXCEPT ![CalStep + 1] = v]
  /\ CalStep' = CalStep + 1
  /\ SetTemp' = CalTemp[CurrentTip][CalStep' + 1]
  /\ setRotary(100, 500, 1, SetTemp')
  /\ beepIfWorky' = TRUE
  /\ pc' = "calib"
  /\ UNCHANGED <<settings, options, tipstore, EEPROM, saved, lastOp, ops, notice,
                 encmain, ShowTemp, Setpoint, Output, RawTemp, CurrentTemp, CJTemp,
                 Vcc, Vin, inSleepMode, inOffMode, inBoostMode, isWorky,
                 TipIsPresent, timing, c, c0, hold, reedValue, heater, SaveSetTemp,
                 turns>>

\* the button ends the third step with the dial at v, the chip reads chip
\* and the store prompt is answered, or would have been answered, with
\* confirm
\* the heater pin left as it was when the calibration ends
ShutOff_kept(pin) == pin

\* analogWrite(CONTROL_PIN, HEATER_OFF) on a pin holding any value
ShutOff(pin) == HEATER_OFF

CalibrationEnd(v, chip, confirm) ==
  /\ pc = "calwait"
  /\ CalStep = 2
  /\ CalTempNew' = <<CalTempNew[1], CalTempNew[2], v, chip>>
  /\ heater' = ShutOff(heater)
  /\ IF CalibrationValid(CalTempNew')
     THEN /\ setRotary(0, 1, 1, BoolByte(confirm))
          /\ CalTemp' = IF confirm
                        THEN [CalTemp EXCEPT ![CurrentTip] = CalTempNew']
                        ELSE CalTemp
     ELSE /\ count' = ShiftUp(v)
          /\ UNCHANGED <<a0, b0, ab0, countMin, countMax, countStep, CalTemp>>
  /\ lastOp' = IF confirm THEN "calibrate yes" ELSE "calibrate no"
  /\ ops' = ops + 1
  /\ CalStep' = 0
  /\ pc' = "tips"
  /\ UNCHANGED <<settings, options, NumberOfTips, CurrentTip, TipName, EEPROM, saved,
                 notice, encmain, temps, modes, timing, c, c0, hold, reedValue,
                 SaveSetTemp, turns>>

InputNameScreen(chars) ==
  /\ TipItemFrame
  /\ setRotary(31, 96, 1, 65)
  /\ TipName' = [TipName EXCEPT ![CurrentTip] = EnteredName(chars)]
  /\ lastOp' = "rename"
  /\ UNCHANGED <<NumberOfTips, CurrentTip, CalTemp, CalTempNew, notice, temps, modes,
                 heater>>

\* confirm is the answer given, or the one that would have been given, to
\* the "Are you sure ?" prompt
DeleteTipScreen(confirm) ==
  /\ TipItemFrame
  /\ IF IsOnlyTip(NumberOfTips)
     THEN \* MessageScreen
          /\ setRotary(0, 5, 1, 3)
          /\ UNCHANGED tipstore
     ELSE /\ setRotary(0, 1, 1, BoolByte(confirm))
          /\ IF confirm
             THEN /\ IF CurrentTip = NumberOfTips - 1
                     THEN /\ CurrentTip' = U8(CurrentTip - 1)
                          /\ UNCHANGED <<TipName, CalTemp>>
                     ELSE /\ TipName' = ShiftedDown(TipName, CurrentTip, NumberOfTips)
                          /\ CalTemp' = ShiftedDown(CalTemp, CurrentTip, NumberOfTips)
                          /\ UNCHANGED CurrentTip
                  /\ NumberOfTips' = U8(NumberOfTips - 1)
             ELSE UNCHANGED tipstore
  /\ lastOp' = IF confirm THEN "delete yes" ELSE "delete no"
  /\ UNCHANGED <<CalTempNew, notice, temps, modes, heater>>

AddTipScreen(chars) ==
  /\ TipItemFrame
  /\ IF HasFreeSlot(NumberOfTips)
     THEN /\ CurrentTip' = NumberOfTips
          /\ NumberOfTips' = NumberOfTips + 1
          /\ setRotary(31, 96, 1, 65)
          /\ TipName' = [TipName EXCEPT ![CurrentTip'] = EnteredName(chars)]
          /\ CalTemp' = [CalTemp EXCEPT ![CurrentTip'] = DefaultCalTemp]
     ELSE \* MessageScreen
          /\ setRotary(0, 5, 1, 4)
          /\ UNCHANGED tipstore
  /\ lastOp' = "add"
  /\ UNCHANGED <<CalTempNew, notice, temps, modes, heater>>

\* the pins and analog inputs the station on the bench starts up with
BenchInputs ==
  /\ a0 = 1
  /\ b0 = 1
  /\ loFirst
  /\ RawTemp = denoiseAnalog(372)
  /\ CJTemp \in getColdJ(155)
  /\ Vin = getVIN(800, Vcc)

\* power is taken away and given back on the bench: the memory starts from
\* its initialisers, setup() runs getEEPROM on the EEPROM as it is and the
\* rest of the state is set as at the first start
Reboot ==
  /\ DefaultTemp' = getEEPROM(EEPROM, Defaults).mem.DefaultTemp
  /\ SleepTemp' = getEEPROM(EEPROM, Defaults).mem.SleepTemp
  /\ BoostTemp' = getEEPROM(EEPROM, Defaults).mem.BoostTemp
  /\ time2sleep' = getEEPROM(EEPROM, Defaults).mem.time2sleep
  /\ time2off' = getEEPROM(EEPROM, Defaults).mem.time2off
  /\ timeOfBoost' = getEEPROM(EEPROM, Defaults).mem.timeOfBoost
  /\ MainScrType' = getEEPROM(EEPROM, Defaults).mem.MainScrType
  /\ PIDenable' = getEEPROM(EEPROM, Defaults).mem.PIDenable
  /\ beepEnable' = getEEPROM(EEPROM, Defaults).mem.beepEnable
  /\ BodyFlip' = getEEPROM(EEPROM, Defaults).mem.BodyFlip
  /\ ECReverse' = getEEPROM(EEPROM, Defaults).mem.ECReverse
  /\ CurrentTip' = getEEPROM(EEPROM, Defaults).mem.CurrentTip
  /\ NumberOfTips' = getEEPROM(EEPROM, Defaults).mem.NumberOfTips
  /\ TipName' = getEEPROM(EEPROM, Defaults).mem.TipName
  /\ CalTemp' = getEEPROM(EEPROM, Defaults).mem.CalTemp
  /\ EEPROM' = getEEPROM(EEPROM, Defaults).rom
  /\ sleepmillis' = 0
  /\ a0' = 1
  /\ b0' = 1
  /\ ab0' = (a0' = b0')
  /\ countMin' = ShiftUp(TEMP_MIN)
  /\ countMax' = ShiftUp(TEMP_MAX)
  /\ countStep' = StepOf(ECReverse', TEMP_STEP)
  /\ count' = ShiftUp(DefaultTemp')
  /\ epc' = "idle"
  /\ estep' = 0
  /\ eargs' = [rmin |-> TEMP_MIN, rmax |-> TEMP_MAX, rstep |-> TEMP_STEP,
              rvalue |-> DefaultTemp']
  /\ ereg' = 0
  /\ rd' = DefaultTemp'
  /\ held' = {ShiftUp(DefaultTemp')}
  /\ ideal' = {ShiftUp(DefaultTemp')}
  /\ encOp' = "set"
  /\ loFirst' = loFirst
  /\ SetTemp' = DefaultTemp'
  /\ ShowTemp' = 0
  /\ Setpoint' = 0
  /\ Output' = 0
  /\ RawTemp' = denoiseAnalog(372)
  /\ CJTemp' \in getColdJ(155)
  /\ CurrentTemp' = calculateTemp(RawTemp', CJTemp')
  /\ \E l \in VccLevels : Vcc' = getVCC(l)
  /\ Vin' = getVIN(800, Vcc')
  /\ inSleepMode' = FALSE
  /\ inOffMode' = FALSE
  /\ inBoostMode' = FALSE
  /\ isWorky' = TRUE
  /\ beepIfWorky' = TRUE
  /\ TipIsPresent' = TRUE
  /\ boostmillis' = 0
  /\ buttonmillis' = 0
  /\ goneSeconds' = 0
  /\ SensorCounter' = 255
  /\ now' = 0
  /\ pc' = IF NumberOfTips' > TIPMAX THEN "wild" ELSE "rotary"
  /\ c' = 0
  /\ c0' = 0
  /\ hold' = 0
  /\ reedValue' = 0
  /\ heater' = HEATER_OFF
  /\ SaveSetTemp' = 0
  /\ CalTempNew' = <<0, 0, 0, 0>>
  /\ CalStep' = 0
  /\ notice' = "none"
  /\ turns' = 0
  /\ lastOp' = LoadKind(EEPROM)
  /\ UNCHANGED <<saved, ops>>

\* a store of n tips with tip cur selected, none of them like the default tip
StoreOf(n, cur) ==
  [Defaults EXCEPT
     !.DefaultTemp = 300, !.SleepTemp = 120, !.BoostTemp = 30, !.time2sleep = 10,
     !.time2off = 20, !.timeOfBoost = 60, !.MainScrType = 0, !.beepEnable = FALSE,
     !.NumberOfTips = n, !.CurrentTip = cur,
     !.TipName = [i \in TipIndices |->
                    IF i < n THEN <<84, 73, 80, 48 + i, 32, 0>> ELSE NoTipName],
     !.CalTemp = [i \in TipIndices |->
                    IF i < n THEN <<210 + i, 300 + i, 380 + i, 20 + i>>
                    ELSE <<0, 0, 0, 0>>]]

\* EEPROMs the station is switched on with: never written, zeroed, holding
\* two tips behind a foreign identifier, and written by this program with
\* one, two, three or eight tips
StoreImages ==
  {Erased, [a \in EepromCells |-> 0], updateEEPROM(Erased, StoreOf(2, 1))}
    \cup UNION {{updateEEPROM(WithIdent(Erased), StoreOf(n, cur)) : cur \in {0, n - 1}} :
                   n \in {1, 2, 3, TIPMAX}}

InitStore ==
  /\ \E e0 \in StoreImages : StartFrom(e0)
  /\ BenchInputs

\* the button is pressed on one pass and found released 500 ms later on the
\* next, which opens SetupScreen; the loop is followed up to SetupScreen's
\* return on the second pass
NextStore ==
  \/ \E cin \in PinLevels : ROTARYCheck_Button(cin, LongPress)
  \/ PassesBegun = 0 /\ ROTARYCheck_Timer
  \/ SENSORCheck_Sleep(100)
  \/ SENSORCheck_Sample(372, 155, 800)
  \/ SENSORCheck_Eval
  \/ SENSORCheck_TipCheck
  \/ Thermostat(0)
  \/ MainScreen(0)
  \/ \E v \in SettingsChoices : SettingsMenus(v)
  \/ TipScreen
  \/ \E selected \in {0, 1, TIPMAX - 1} : ChangeTipScreen(selected)
  \/ CalibrationBegin
  \/ pc = "calib" /\ CalibrationSense(100, 372, 155, 800, 0)
  \/ \E v \in DialsAt(CalStep) : CalibrationNext(v)
  \/ \E v \in DialsAt(2), chip \in ChipTemps, confirm \in BOOLEAN :
        CalibrationEnd(v, chip, confirm)
  \/ \E chars \in DialledNames : InputNameScreen(chars)
  \/ \E confirm \in BOOLEAN : DeleteTipScreen(confirm)
  \/ \E chars \in NewTipNames : AddTipScreen(chars)
  \/ SetupExit
  \/ Reboot

SpecStore == InitStore /\ [][NextStore]_vars

\* C12: whatever menu items are run, and across storing and loading, the
\* store holds 1 to TIPMAX tips and the selected tip is one of them.
C12_StoreInvariants ==
  /\ 1 <= NumberOfTips
  /\ NumberOfTips <= TIPMAX
  /\ CurrentTip < NumberOfTips

\* the last of eight tips was selected and has been deleted
C12_Witness ==
  lastOp = "delete yes" /\ NumberOfTips = TIPMAX - 1 /\ CurrentTip = TIPMAX - 2

\* C13: "Add new Tip" on a store of TIPMAX tips leaves the store as it is;
\* on a smaller store it puts one tip at index NumberOfTips with the
\* calibration 216, 308, 390, 30, leaves the tips before it as they are and
\* raises NumberOfTips by one.
C13_AddProfile ==
  [][(lastOp' = "add" /\ ops' = ops + 1) =>
       IF NumberOfTips = TIPMAX
       THEN UNCHANGED <<NumberOfTips, CurrentTip, TipName, CalTemp>>
       ELSE /\ NumberOfTips' = NumberOfTips + 1
            /\ CalTemp'[NumberOfTips] = <<216, 308, 390, 30>>
            /\ \A i \in 0 .. (NumberOfTips - 1) :
                  TipName'[i] = TipName[i] /\ CalTemp'[i] = CalTemp[i]]_vars

\* a fourth tip has been added to a store of three
C13_Witness ==
  /\ lastOp = "add"
  /\ NumberOfTips = 4
  /\ CalTemp[3] = <<216, 308, 390, 30>>
  /\ CalTemp[2] = <<212, 302, 382, 22>>

\* C14: "Delete Tip" on a store of one tip is refused: the store still holds
\* one tip, tip 0 is selected and its name and four calibration values are
\* as before.
C14_DeleteOnlyTipRefused ==
  [][(lastOp' \in {"delete yes", "delete no"} /\ ops' = ops + 1 /\ NumberOfTips = 1) =>
       /\ NumberOfTips' = 1
       /\ CurrentTip' = 0
       /\ TipName'[0] = TipName[0]
       /\ CalTemp'[0] = CalTemp[0]]_vars

\* "Delete Tip" has been picked on the store that was loaded with one tip
C14_Witness ==
  /\ lastOp = "delete yes"
  /\ ops = 1
  /\ NumberOfTips = 1
  /\ CurrentTip = 0
  /\ TipName[0] = <<84, 73, 80, 48, 32, 0>>
  /\ TipName[1] = NoTipName
  /\ CalTemp[0] = <<210, 300, 380, 20>>

\* C15: "Delete Tip" on a store of more than one tip, answered with yes,
\* takes the selected tip out: the tips before it stay, the tips after it
\* move one index down, NumberOfTips drops by one, and the selection moves
\* to the new last tip if the last tip was removed and stays otherwise.
C15_DeleteSelected ==
  [][(lastOp' = "delete yes" /\ ops' = ops + 1 /\ NumberOfTips > 1) =>
       /\ NumberOfTips' = NumberOfTips - 1
       /\ \A i \in 0 .. (CurrentTip - 1) :
             TipName'[i] = TipName[i] /\ CalTemp'[i] = CalTemp[i]
       /\ \A i \in CurrentTip .. (NumberOfTips - 2) :
             TipName'[i] = TipName[i + 1] /\ CalTemp'[i] = CalTemp[i + 1]
       /\ CurrentTip' = IF CurrentTip = NumberOfTips - 1
                         THEN NumberOfTips' - 1
                         ELSE CurrentTip]_vars

\* the middle one of three tips was selected and deleted
C15_Witness ==
  /\ lastOp = "delete yes"
  /\ NumberOfTips = 2
  /\ CurrentTip = 1
  /\ TipName[0] = <<84, 73, 80, 48, 32, 0>>
  /\ TipName[1] = <<84, 73, 80, 50, 32, 0>>
  /\ CalTemp[1] = <<212, 302, 382, 22>>

\* C16: three values dialled in "Calibrate Tip", each in 100..500, are taken
\* over exactly when the first is more than 10 below the second, the second
\* more than 10 below the third, and the store prompt is answered with yes;
\* then the tip's first three calibration values are the dialled ones and
\* the fourth is the chip temperature read; otherwise the store is as before.
C16_Calibrate ==
  [][(/\ lastOp' \in {"calibrate yes", "calibrate no"}
      /\ ops' = ops + 1
      /\ \A k \in 1 .. 3 : 100 <= CalTempNew'[k] /\ CalTempNew'[k] <= 500) =>
       IF /\ CalTempNew'[1] + 10 < CalTempNew'[2]
          /\ CalTempNew'[2] + 10 < CalTempNew'[3]
          /\ lastOp' = "calibrate yes"
       THEN /\ CalTemp'[CurrentTip] = CalTempNew'
            /\ \A i \in TipIndices \ {CurrentTip} : CalTemp'[i] = CalTemp[i]
            /\ UNCHANGED <<NumberOfTips, CurrentTip, TipName>>
       ELSE UNCHANGED <<NumberOfTips, CurrentTip, TipName, CalTemp>>]_vars

\* 200, 211, 222 was dialled for the second of two tips and stored
C16_Witness ==
  /\ lastOp = "calibrate yes"
  /\ CalTempNew = <<200, 211, 222, 27>>
  /\ CurrentTip = 1
  /\ CalTemp[1] = <<200, 211, 222, 27>>
  /\ CalTemp[0] = <<210, 300, 380, 20>>

\* the settings of m1 and m2 agree, and so do the tips m2 counts
SameStored(m1, m2) ==
  /\ m1.DefaultTemp = m2.DefaultTemp
  /\ m1.SleepTemp = m2.SleepTemp
  /\ m1.BoostTemp = m2.BoostTemp
  /\ m1.time2sleep = m2.time2sleep
  /\ m1.time2off = m2.time2off
  /\ m1.timeOfBoost = m2.timeOfBoost
  /\ m1.MainScrType = m2.MainScrType
  /\ m1.PIDenable = m2.PIDenable
  /\ m1.beepEnable = m2.beepEnable
  /\ m1.BodyFlip = m2.BodyFlip
  /\ m1.ECReverse = m2.ECReverse
  /\ m1.CurrentTip = m2.CurrentTip
  /\ m1.NumberOfTips = m2.NumberOfTips
  /\ \A i \in 0 .. (m2.NumberOfTips - 1) :
        m1.TipName[i] = m2.TipName[i] /\ m1.CalTemp[i] = m2.CalTemp[i]

\* C17: after getEEPROM has read an EEPROM with the matching identifier,
\* every setting, the selected tip, the number of tips and the name and four
\* calibration values of every tip below that number are those of the
\* memory that updateEEPROM wrote last.
C17_RoundTrip ==
  lastOp = "load" => SameStored(Memory, saved)

\* settings were changed and a fourth tip added, SetupScreen stored them and
\* the station was switched off and on
C17_Witness ==
  /\ lastOp = "load"
  /\ ops = 2
  /\ saved.DefaultTemp = 260
  /\ DefaultTemp = 260
  /\ ECReverse
  /\ NumberOfTips = 4
  /\ TipName[3] = <<78, 69, 87, 32, 32, 0>>
  /\ CalTemp[3] = <<216, 308, 390, 30>>

\* the defaults as the documentation lists them
DocumentedDefaults ==
  [DefaultTemp |-> 320, SleepTemp |-> 150, BoostTemp |-> 50, time2sleep |-> 5,
   time2off |-> 15, timeOfBoost |-> 40, MainScrType |-> 1, PIDenable |-> FALSE,
   beepEnable |-> TRUE, BodyFlip |-> FALSE, ECReverse |-> FALSE, CurrentTip |-> 0,
   NumberOfTips |-> 1,
   TipName |-> [i \in TipIndices |-> <<87, 77, 82, 84, 0, 0>>],
   CalTemp |-> [i \in TipIndices |-> <<216, 308, 390, 30>>]]

\* C18: when getEEPROM finds another identifier than EEPROM_IDENT, whatever
\* the EEPROM holds, the memory is left at the documented defaults with the
\* one tip WMRT, and the EEPROM then carries the identifier and these
\* defaults, so that the next getEEPROM reads exactly them.
C18_MismatchResets ==
  lastOp = "reset" =>
    /\ SameStored(Memory, DocumentedDefaults)
    /\ EepromWord(EEPROM, 0) = 59244
    /\ SameStored(getEEPROM(EEPROM, Defaults).mem, DocumentedDefaults)

\* the station has started on the EEPROM with the foreign identifier and
\* SetupScreen has been opened: the record of the second tip is still in the
\* EEPROM, the memory holds one tip
C18_Witness ==
  /\ lastOp = "reset"
  /\ pc = "setup"
  /\ NumberOfTips = 1
  /\ DefaultTemp = 320
  /\ EEPROM[17 + TipRecordLength] = 84
  /\ EEPROM[16] = 1

\* ------------------------------------------------ the direct control type
\* sensor readings on both sides of every threshold of the ladder around
\* 320 degrees, and two above it
DirectSensorLevels == {312, 313, 342, 343, 366, 367, 371, 372, 380, 440}

\* the handle at rest, in use and taken away
DirectReedLevels == {0, 100, 1023}

InitDirect ==
  /\ Init
  /\ ~PIDenable
  /\ RawTemp = denoiseAnalog(372)
  /\ CJTemp = 25
  /\ Vin = getVIN(800, Vcc)

NextDirect ==
  \/ \E cin \in PinLevels : ROTARYCheck_Button(cin, 0)
  \/ ROTARYCheck_Timer
  \/ \E rl \in DirectReedLevels : SENSORCheck_Sleep(rl)
  \/ \E tl \in DirectSensorLevels : SENSORCheck_Sample(tl, 155, 800)
  \/ SENSORCheck_Eval
  \/ SENSORCheck_TipCheck
  \/ Thermostat(0)
  \/ PassesBegun < MaxTicks /\ MainScreen(0)

SpecDirect == InitDirect /\ [][NextDirect]_vars

\* the ladder of the documentation over a gap in thousandths of a degree
Ladder(gap) ==
  IF gap > 50000 THEN 255
  ELSE IF gap > 25000 THEN 128
  ELSE IF gap > 5000 THEN 32
  ELSE IF gap > 500 THEN 8
  ELSE 0

\* C19 as stated: with the direct control type the Output of a Thermostat
\* step is the ladder value of the distance |Setpoint - CurrentTemp|.
C19_LadderByDistance ==
  (pc = "screen" /\ ~PIDenable) =>
    Output = Ladder(Abs(Setpoint * 1000 - CurrentTemp))

\* C19 amended: with the direct control type the Output of a Thermostat step
\* is the ladder value of the signed gap Setpoint - CurrentTemp, hence 0
\* whenever the temperature is not more than 0.5 below the setpoint, and it
\* depends on nothing else.
C19_LadderBySignedGap ==
  (pc = "screen" /\ ~PIDenable) =>
    Output = Ladder(Setpoint * 1000 - CurrentTemp)

\* the tip is more than 50 degrees above the setpoint and the heater is
\* given nothing
C19_Witness ==
  /\ pc = "screen"
  /\ ~PIDenable
  /\ CurrentTemp > Setpoint * 1000 + 50000
  /\ Setpoint > 0
  /\ Output = 0

\* C20: when SENSORCheck has evaluated a reading, in whatever mode, isWorky
\* holds exactly if the temperature is less than 5 degrees away from the
\* setpoint Thermostat uses in that mode.
C20_AtTargetFlag ==
  pc = "tipcheck" =>
    (isWorky <=>
       Abs(ModeSetpoint(inOffMode, inSleepMode, inBoostMode,
                        SetTemp, SleepTemp, BoostTemp) * 1000 - CurrentTemp) < 5000)

\* ------------------------------------- the beep at working temperature
\* the tip at working temperature and well below it
NoticeSensorLevels == {312, 372}

\* boost runs out after one second
InitNotice ==
  /\ Boot
  /\ timeOfBoost = 1
  /\ ~PIDenable
  /\ ~ECReverse
  /\ a0 = 1
  /\ b0 = 1
  /\ loFirst
  /\ RawTemp = denoiseAnalog(372)
  /\ CJTemp = 25
  /\ Vin = getVIN(800, Vcc)

NextNotice ==
  \/ \E cin \in PinLevels : ROTARYCheck_Button(cin, 0)
  \/ ROTARYCheck_Timer
  \/ SENSORCheck_Sleep(100)
  \/ \E tl \in NoticeSensorLevels : SENSORCheck_Sample(tl, 155, 800)
  \/ SENSORCheck_Eval
  \/ SENSORCheck_TipCheck
  \/ Thermostat(0)
  \/ PassesBegun <= MaxTicks /\ MainScreen(1000)

SpecNotice == InitNotice /\ [][NextNotice]_vars

\* C21: once a boost expiry has asked for the beep at working temperature,
\* the beep is given at the first later SENSORCheck that turns isWorky from
\* false to true, and not again before it is asked for again.
C21_OneShotNotice ==
  notice \notin {"missed", "extra"}

\* C22: whatever menu items are run, and across storing and loading, every
\* tip below NumberOfTips has three calibration points in rising order, at
\* least 10 apart.
C22_CalibrationPoints ==
  \A i \in 0 .. (NumberOfTips - 1) :
    CalTemp[i][1] + 10 <= CalTemp[i][2] /\ CalTemp[i][2] + 10 <= CalTemp[i][3]

\* the first of three tips has been calibrated to 100, 300, 500 and stored
C22_Witness ==
  /\ lastOp = "calibrate yes"
  /\ NumberOfTips = 3
  /\ CalTemp[0] = <<100, 300, 500, 27>>
  /\ CalTemp[1] = <<211, 301, 381, 21>>

\* the screens of SetupScreen
MenuPlaces == {"setup", "tips", "calib", "calwait"}

\* C23: no step made inside SetupScreen changes the EEPROM, and the step
\* that leaves SetupScreen for the loop leaves an EEPROM from which
\* getEEPROM reads every setting and every tip of the memory as it is then.
C23_BatchedCommit ==
  [][/\ (pc \in MenuPlaces /\ pc' \in MenuPlaces) => EEPROM' = EEPROM
     /\ (pc \in MenuPlaces /\ pc' \notin MenuPlaces /\ lastOp' = "exit") =>
          /\ EepromWord(EEPROM', 0) = 59244
          /\ SameStored(getEEPROM(EEPROM', Defaults).mem, Memory')]_vars

\* a fourth tip was added and SetupScreen has returned
C23_Witness ==
  /\ lastOp = "exit"
  /\ pc = "rotary2"
  /\ NumberOfTips = 4
  /\ EEPROM[16] = 4
  /\ EEPROM[17 + 3 * TipRecordLength] = 78

\* ------------------------------------------ power lost while storing
\* the EEPROM after the first k byte writes of updateEEPROM(), which writes
\* the cells from 2 on in rising order
PersistPrefix(e, m, k) ==
  [a \in DOMAIN e |-> IF a < 2 + k THEN updateEEPROM(e, m)[a] ELSE e[a]]

\* the EEPROM after the first j byte writes of getEEPROM's reset branch:
\* the two identifier cells, then updateEEPROM()
FirstBootPrefix(e, m, j) ==
  IF j = 0 THEN e
  ELSE IF j = 1 THEN [e EXCEPT ![0] = HiByte(EEPROM_IDENT)]
  ELSE PersistPrefix(WithIdent(e), m, j - 2)

\* byte writes after which power is lost: none, all before CurrentTip, up
\* to CurrentTip, up to NumberOfTips, and into the first tip
CutPoints == {0, 13, 14, 15, 20}

\* SetupScreen starts to store and power is lost after k byte writes
SetupExitCut(k) ==
  /\ pc \in {"setup", "tips"}
  /\ EEPROM' = PersistPrefix(EEPROM, Memory, k)
  /\ lastOp' = "cut"
  /\ pc' = "dead"
  /\ heater' = HEATER_OFF
  /\ UNCHANGED <<settings, options, tipstore, saved, ops, CalTempNew, CalStep, notice,
                 encoder, encmain, temps, modes, timing, c, c0, hold, reedValue,
                 SaveSetTemp, turns>>

\* EEPROMs the station is switched on with: never written, left by a first
\* start that lost power after the identifier or after the settings, and
\* written by this program with two tips
CrashImages ==
  {Erased, FirstBootPrefix(Erased, Defaults, 2), FirstBootPrefix(Erased, Defaults, 17)}
    \cup {updateEEPROM(WithIdent(Erased), StoreOf(2, cur)) : cur \in {0, 1}}

InitCrash ==
  /\ \E e0 \in CrashImages : StartFrom(e0)
  /\ BenchInputs

NextCrash ==
  \/ \E cin \in PinLevels : ROTARYCheck_Button(cin, LongPress)
  \/ PassesBegun = 0 /\ ROTARYCheck_Timer
  \/ SENSORCheck_Sleep(100)
  \/ SENSORCheck_Sample(372, 155, 800)
  \/ SENSORCheck_Eval
  \/ SENSORCheck_TipCheck
  \/ Thermostat(0)
  \/ MainScreen(0)
  \/ TipScreen
  \/ \E selected \in {0, 1} : ChangeTipScreen(selected)
  \/ \E confirm \in BOOLEAN : DeleteTipScreen(confirm)
  \/ \E chars \in NewTipNames : AddTipScreen(chars)
  \/ SetupExit
  \/ \E k \in CutPoints : SetupExitCut(k)
  \/ Reboot

SpecCrash == InitCrash /\ [][NextCrash]_vars

\* C24: whatever prefix of the byte writes of a store, or of the first
\* start's reset, reached the EEPROM before power was lost, the tip store
\* getEEPROM reads at the next start holds 1 to TIPMAX tips and the
\* selected tip is one of them.
C24_CrashSafeStore ==
  lastOp = "load" =>
    (NumberOfTips >= 1 /\ NumberOfTips <= TIPMAX /\ CurrentTip < NumberOfTips)

\* C25: inside the setup screen the heater is off wherever the control loop
\* does not run, that is in the menus and prompts outside the sensing loop
\* of the calibration; in particular from the end of the third calibration
\* step until the setup screen returns.
C25_HeaterOffInMenus ==
  pc \in {"setup", "tips"} => Duty = 0

\* a calibration that heated has ended and the tip menu is shown
C25_Witness ==
  /\ pc = "tips"
  /\ lastOp = "calibrate yes"
  /\ Output > 0
  /\ Duty = 0

\* C26: with the direct control type, a supply above 11 V and a temperature
\* that is not negative, no duty other than 0 is written to the heater once
\* the presence check of a pass has set the Off mode: neither in the rest
\* of that pass nor in later passes while the mode stays Off.
C26_OffKeepsHeaterOff ==
  (inOffMode /\ ~PIDenable /\ Vin > VinMin /\ CurrentTemp >= 0) => Duty = 0

\* C28: a short press toggles the boost only while the iron is in hand: a
\* button step of ROTARYCheck taken in the Sleep or the Off mode leaves
\* inBoostMode as it was.
C28_BoostOnlyInHand ==
  [][(pc = "rotary" /\ pc' = "rotary2" /\ (inSleepMode \/ inOffMode))
       => inBoostMode' = inBoostMode]_vars

\* ------------------------------------- calibration entered with boost
\* first start with the defaults; the button may be tapped, released and
\* held in the first three passes of loop() and the encoder turned before
\* the button is looked at, the iron stays in hand
InitCalib ==
  /\ StartFrom(Erased)
  /\ BenchInputs

NextCalib ==
  \/ \E cin \in PinLevels, h \in {0, LongPress} : ROTARYCheck_Button(cin, h)
  \/ PassesBegun <= 2 /\ ROTARYCheck_Timer
  \/ \E a, b \in PinLevels : LoopTurn(a, b)
  \/ SENSORCheck_Sleep(100)
  \/ SENSORCheck_Sample(372, 155, 800)
  \/ SENSORCheck_Eval
  \/ SENSORCheck_TipCheck
  \/ Thermostat(0)
  \/ MainScreen(0)
  \/ TipScreen
  \/ CalibrationBegin
  \/ pc = "calib" /\ CalibrationSense(100, 372, 155, 800, 0)
  \/ \E v \in DialsAt(CalStep) : CalibrationNext(v)
  \/ \E v \in DialsAt(2), chip \in ChipTemps, confirm \in BOOLEAN :
       CalibrationEnd(v, chip, confirm)
  \/ SetupExit

SpecCalib == InitCalib /\ [][NextCalib]_vars

\* C27: in calibration step k with the iron in hand the setpoint of every
\* Thermostat step is reference point k of the selected tip, whether or not
\* the boost was on when the setup screen was entered.
C27_CalibrationSetpoint ==
  (pc = "calwait" /\ ~inSleepMode /\ ~inOffMode) =>
    Setpoint = CalTemp[CurrentTip][CalStep + 1]

\* C29: the setup screen gives the setpoint back: SaveSetTemp is the SetTemp
\* of the entry and no menu changes it, and on the return SetTemp is that
\* value again and the encoder is set to the range TEMP_MIN..TEMP_MAX with
\* step TEMP_STEP and stands on that value, so that the next getRotary()
\* reads it back.
C29_SetpointRestored ==
  [][/\ (pc = "rotary" /\ pc' = "setup") => SaveSetTemp' = SetTemp'
     /\ (pc \in MenuPlaces /\ pc' \in MenuPlaces) => SaveSetTemp' = SaveSetTemp
     /\ (pc \in MenuPlaces /\ pc' = "rotary2") =>
          /\ SetTemp' = SaveSetTemp
          /\ getRotaryOf(count') = SetTemp'
          /\ getRotaryOf(countMin') = TEMP_MIN
          /\ getRotaryOf(countMax') = TEMP_MAX
          /\ Abs(countStep') = TEMP_STEP]_vars

\* the setup screen has returned after a calibration that moved SetTemp,
\* and the setpoint dialled before the entry is back
C29_Witness ==
  /\ pc = "rotary2"
  /\ lastOp = "exit"
  /\ CalTempNew[3] # 0
  /\ SetTemp # TEMP_DEFAULT
  /\ getRotary = SetTemp
  /\ SaveSetTemp = SetTemp

====
